---- MODULE Spec2Model ----
(***************************************************************************)
(* Model of the Confluence space export: POST /export_space                *)
(* (routes/export_space.py), the per-page export with retry                *)
(* (services/download_file.py), the Confluence client                      *)
(* (services/confluence_api.py) and the bucket cleaning                    *)
(* (services/delete_files.py).                                             *)
(*                                                                         *)
(* Strings are sequences of one-character strings, so that sanitization,   *)
(* suffix tests and integer parsing are computed character by character.   *)
(* One request is modelled: the handler never yields between its blocking  *)
(* calls (delete_files_in_bucket is awaited but awaits nothing itself).    *)
(***************************************************************************)
EXTENDS Integers, Sequences, FiniteSets, TLC

(***************************************************************************)
(* Bounds of the model.                                                    *)
(***************************************************************************)
\* number of pages of the space besides the homepage
NumPages == 3
\* largest number of objects found in the bucket when the run starts
MaxBlobs == 2

(***************************************************************************)
(* Program constants.                                                      *)
(***************************************************************************)
\* for attempt in range(3)
Attempts == 3
\* wait_time += 10
WaitIncrement == 10
\* time.sleep(10)
RetrySleep == 10
\* if response.status_code == 200 / if status_code == 200
HTTP_OK == 200
\* the statuses a download answers with: 200 and one that is not 200
DownloadStatuses == {HTTP_OK, 404}

(***************************************************************************)
(* Python values.  None is a token of its own; an int and a dict holding   *)
(* that int are different values, as for Python's ==.                      *)
(***************************************************************************)
None == <<"None">>
PyInt(n) == [type |-> "int", val |-> n]
PyDict(n) == [type |-> "dict", val |-> n]
PyNone == [type |-> "NoneType", val |-> 0]
PyEq(x, y) == x = y

(***************************************************************************)
(* Characters.                                                             *)
(***************************************************************************)
Whitespace == {" ", "\t"}
\* the characters of the model's alphabet that are outside \w
NonWord == {" ", "\t", ":", "-", "=", ".", "/"}
IsWordChar(c) == c \notin NonWord
DigitChars == <<"0", "1", "2", "3", "4", "5", "6", "7", "8", "9">>
IsDigit(c) == \E i \in 1..10 : DigitChars[i] = c
DigitVal(c) == (CHOOSE i \in 1..10 : DigitChars[i] = c) - 1
Lower(c) == CASE c = "P" -> "p" [] c = "D" -> "d" [] c = "F" -> "f"
              [] c = "I" -> "i" [] c = "B" -> "b" [] OTHER -> c

RECURSIVE LStrip(_)
LStrip(s) == IF s # <<>> /\ Head(s) \in Whitespace THEN LStrip(Tail(s)) ELSE s
RECURSIVE RStrip(_)
RStrip(s) == IF s # <<>> /\ s[Len(s)] \in Whitespace
               THEN RStrip(SubSeq(s, 1, Len(s) - 1)) ELSE s
\* str.strip()
Strip(s) == RStrip(LStrip(s))
\* str.replace(' ', '_')
ReplaceSpaces(s) == [i \in 1..Len(s) |-> IF s[i] = " " THEN "_" ELSE s[i]]
\* re.sub(r'\W+', '', s)
RemoveNonWord(s) == SelectSeq(s, IsWordChar)
\* str.lower()
LowerStr(s) == [i \in 1..Len(s) |-> Lower(s[i])]
\* str.endswith(suffix)
EndsWith(s, suf) ==
    /\ Len(s) >= Len(suf)
    /\ SubSeq(s, Len(s) - Len(suf) + 1, Len(s)) = suf

DotPdf == <<".", "p", "d", "f">>
ConfluencePageIdTag ==
    <<"_", "c", "o", "n", "f", "l", "u", "e", "n", "c", "e",
      "P", "a", "g", "e", "I", "d", "=">>
DefaultOutputPath ==
    <<"c", "o", "n", "f", "l", "u", "e", "n", "c", "e", "_",
      "d", "o", "w", "n", "l", "o", "a", "d", "s", "/">>

\* convert_title_to_filename
convert_title_to_filename(title) == RemoveNonWord(ReplaceSpaces(Strip(title)))

\* file_page_title of export_pdf_confluence_page_by_id
FilePageTitle(title, id) ==
    convert_title_to_filename(title) \o ConfluencePageIdTag \o id

\* the blob name download_pdf_from_presigned_url_to_gcs_bucket uploads to
GcsBlobName(filename) ==
    LET f == convert_title_to_filename(filename)
    IN  IF EndsWith(LowerStr(f), DotPdf) THEN f ELSE f \o DotPdf

\* os.path.dirname / os.path.basename: split at the last "/"
RECURSIVE LastSlash(_)
LastSlash(s) == IF s = <<>> \/ s[Len(s)] = "/" THEN Len(s)
                ELSE LastSlash(SubSeq(s, 1, Len(s) - 1))
Dirname(s) == IF LastSlash(s) <= 1 THEN SubSeq(s, 1, LastSlash(s))
              ELSE SubSeq(s, 1, LastSlash(s) - 1)
Basename(s) == SubSeq(s, LastSlash(s) + 1, Len(s))

\* the path download_pdf_from_presigned_url writes to
LocalPath(output_path) ==
    LET filename == Basename(output_path)
        f == IF EndsWith(LowerStr(filename), DotPdf) THEN filename
             ELSE filename \o DotPdf
    IN  Dirname(output_path) \o <<"/">> \o f

(***************************************************************************)
(* int(os.getenv('WAIT_TIME_BEFORE_DOWNLOAD')): None raises TypeError, a   *)
(* text that is no optionally signed decimal number raises ValueError.     *)
(***************************************************************************)
RECURSIVE DecimalValue(_)
DecimalValue(s) == IF s = <<>> THEN 0
                   ELSE 10 * DecimalValue(SubSeq(s, 1, Len(s) - 1))
                        + DigitVal(s[Len(s)])
AllDigits(s) == s # <<>> /\ \A i \in 1..Len(s) : IsDigit(s[i])
int(v) ==
    LET s == IF v = None THEN <<>> ELSE Strip(v)
        signed == s # <<>> /\ Head(s) \in {"-", "+"}
        digits == IF signed THEN Tail(s) ELSE s
    IN  IF v = None THEN [ok |-> FALSE, error |-> "TypeError", val |-> 0]
        ELSE IF ~AllDigits(digits)
             THEN [ok |-> FALSE, error |-> "ValueError", val |-> 0]
        ELSE [ok |-> TRUE, error |-> "",
              val |-> IF signed /\ Head(s) = "-" THEN 0 - DecimalValue(digits)
                      ELSE DecimalValue(digits)]

(***************************************************************************)
(* The wiki space the remote API serves: a homepage (index 0) and pages    *)
(* 1..NumPages.  parent[i] is the page whose children listing reports      *)
(* page i (-1: a page of the space that is under no page; these are the    *)
(* last pages); with extra, the homepage's listing reports the last page   *)
(* once more, so that one id can be reached twice.  Parents have smaller   *)
(* indices: the hierarchy is acyclic, as Confluence guarantees.            *)
(***************************************************************************)
Pages == 1..NumPages
HomeId == <<"9">>
PageIdOf(i) == IF i = 0 THEN HomeId
               ELSE IF i = 3 THEN <<"1", "-">>
               ELSE <<DigitChars[i + 1]>>
\* the title the children listing reports for a page
ListedTitle(i) == CASE i = 1 -> <<"a", " ", "b">>
                    [] i = 2 -> <<>>
                    [] i = 3 -> <<"a", "_", "b">>
                    [] OTHER -> <<"B", ":">>
\* the title GET /pages/{id} reports for a page
RealTitle(i) == IF ListedTitle(i) = <<>> THEN <<":">> ELSE ListedTitle(i)
IndexOfId(id) == CHOOSE i \in 0..NumPages : PageIdOf(i) = id

Hierarchies ==
    {h \in [parent : [Pages -> -1..(NumPages - 1)], extra : BOOLEAN] :
        \A i \in Pages :
            /\ h.parent[i] < i
            /\ h.parent[i] = -1 => \A j \in Pages : j > i => h.parent[j] = -1}

\* the objects an earlier run may have left in the bucket
OldBlob(k) == IF k = 1 THEN GcsBlobName(FilePageTitle(ListedTitle(1), PageIdOf(1)))
              ELSE <<"o", DigitChars[k + 1]>> \o DotPdf
OldBlobs == [k \in 1..MaxBlobs |-> OldBlob(k)]

\* values of WAIT_TIME_BEFORE_DOWNLOAD in the environment
EnvWaitChoices == {None, <<"x">>, <<"-", "5">>, <<"1", "5">>}
\* values of GCS_BUCKET_NAME in the environment
EnvBucketChoices == {None, <<"b">>}

\* page outcomes, spelled as the code spells them
EMPTY_PAGE == "EMPTY_PAGE"
DOWNLOAD_SUCCESFUL == "DOWNLOAD_SUCCESFUL"
DOWNLOAD_FAILED == "DOWNLOAD_FAILED"
Outcomes == {EMPTY_PAGE, DOWNLOAD_SUCCESFUL, DOWNLOAD_FAILED}

\* response.json()['body']['export_view']['value'] of a page
Contents == {"<p />", "", "<p>text</p>"}
\* what get_pdf_export_confluence_url can return
PRESIGNED == <<"presigned">>
NOT_A_URL == <<"not a url">>
UrlResults == {None, PRESIGNED, NOT_A_URL}

VARIABLES
    pc,               \* position of the handler
    env,              \* environment variables read by the handler
    hier,             \* the hierarchy of the space (remote)
    bucket,           \* names of the objects in the GCS bucket
    fsFiles,          \* paths of the local files written
    blobs,            \* delete_files_in_bucket: blobs still to delete
    clearCalls,       \* number of calls of delete_files_in_bucket
    clearDone,        \* delete_files_in_bucket has returned
    clearFailed,      \* delete_files_in_bucket swallowed an exception
    remoteCalls,      \* number of requests sent to remote endpoints
    wait_cfg,         \* wait_time of the handler
    space_id,         \* space_id of the handler
    homepage_id,      \* homepage_id of the handler
    pages_ids_dict,   \* pages_ids_dict: sequence of [id, title], keys unique
    idx,              \* number of items of pages_ids_dict iterated
    pages_status,     \* pages_status: outcome -> list of page ids
    response,         \* the dict the handler returns (status 0: none yet)
    raisedBy,         \* what raised the exception that ended the run
    page_id, page_title, file_page_title,   \* locals of export_pdf_confluence_page_by_id
    page_content,     \* page_content of is_empty_confluence_page
    url,              \* url of the current attempt
    attempt,          \* attempt of the for loop
    wait_time,        \* wait_time of export_pdf_confluence_page_by_id
    status_code,      \* status_code of the current attempt
    page_status,      \* value returned by export_pdf_confluence_page_by_id
    initCount,        \* export initiations made for the current page
    waitLog,          \* settling sleeps made for the current page
    httpLog,          \* HTTP statuses the downloads of the current page got
    stepLog,          \* values the download step returned for the current page
    retrySleeps,      \* 10 second sleeps made for the current page
    uploadLog,        \* uploads committed in the run: [page, name, before, content]
    writeLog,         \* local files written in the run: [page, path]
    listLog,          \* ids whose children listing was requested, in order
    downloadCalls     \* downloads requested from a presigned URL in the run

pipelineVars == <<pc, env, hier, bucket, fsFiles, blobs, clearCalls, clearDone,
                  clearFailed, remoteCalls, wait_cfg, space_id, homepage_id,
                  pages_ids_dict, idx, pages_status, response, raisedBy>>
pageVars == <<page_id, page_title, file_page_title, page_content, url, attempt,
              wait_time, status_code, page_status, initCount, waitLog, httpLog,
              stepLog, retrySleeps>>
logVars == <<uploadLog, writeLog, listLog, downloadCalls>>
vars == <<pipelineVars, pageVars, logVars>>

NoResponse == [status |-> 0, msg |-> ""]

Init ==
    /\ pc = "load_env"
    /\ env \in [WAIT_TIME_BEFORE_DOWNLOAD : EnvWaitChoices,
                GCS_BUCKET_NAME : EnvBucketChoices]
    /\ hier \in Hierarchies
    /\ \E n \in 0..MaxBlobs :
          /\ env.GCS_BUCKET_NAME = None => n = 0
          /\ bucket = {OldBlobs[k] : k \in 1..n}
    /\ fsFiles = {}
    /\ blobs = <<>>
    /\ clearCalls = 0
    /\ clearDone = FALSE
    /\ clearFailed = FALSE
    /\ remoteCalls = 0
    /\ wait_cfg = 0
    /\ space_id = None
    /\ homepage_id = None
    /\ pages_ids_dict = <<>>
    /\ idx = 0
    /\ pages_status = [o \in Outcomes |-> <<>>]
    /\ response = NoResponse
    /\ raisedBy = "nothing"
    /\ page_id = None
    /\ page_title = None
    /\ file_page_title = None
    /\ page_content = "unread"
    /\ url = None
    /\ attempt = 0
    /\ wait_time = 0
    /\ status_code = PyNone
    /\ page_status = "none"
    /\ initCount = 0
    /\ waitLog = <<>>
    /\ httpLog = <<>>
    /\ stepLog = <<>>
    /\ retrySleeps = 0
    /\ uploadLog = <<>>
    /\ writeLog = <<>>
    /\ listLog = <<>>
    /\ downloadCalls = 0

(***************************************************************************)
(* routes/export_space.py, lines 36-46: the environment is read.  A        *)
(* failing int() is caught by the bare except, whose body evaluates        *)
(* str(e) with e unbound: the NameError leaves the handler.                *)
(***************************************************************************)
\* LoadEnv of a handler that does not call delete_files_in_bucket
LoadEnvWithoutClean ==
    /\ pc = "load_env"
    /\ LET r == int(env.WAIT_TIME_BEFORE_DOWNLOAD)
       IN  IF r.ok
           THEN /\ wait_cfg' = r.val
                /\ pc' = "space_id"
                /\ UNCHANGED raisedBy
           ELSE /\ pc' = "raised"
                /\ raisedBy' = "NameError"
                /\ UNCHANGED wait_cfg
    /\ UNCHANGED <<env, hier, bucket, fsFiles, blobs, clearCalls, clearDone,
                   clearFailed, remoteCalls, space_id, homepage_id,
                   pages_ids_dict, idx, pages_status, response>>
    /\ UNCHANGED <<page_id, page_title, file_page_title, page_content, url,
                   attempt, wait_time, status_code, page_status, initCount,
                   waitLog, httpLog, stepLog, retrySleeps, uploadLog, writeLog,
                   listLog, downloadCalls>>

LoadEnv ==
    /\ pc = "load_env"
    /\ LET r == int(env.WAIT_TIME_BEFORE_DOWNLOAD)
       IN  IF r.ok
           THEN /\ wait_cfg' = r.val
                /\ pc' = "clean_bucket"
                /\ UNCHANGED raisedBy
           ELSE /\ pc' = "raised"
                /\ raisedBy' = "NameError"
                /\ UNCHANGED wait_cfg
    /\ UNCHANGED <<env, hier, bucket, fsFiles, blobs, clearCalls, clearDone,
                   clearFailed, remoteCalls, space_id, homepage_id,
                   pages_ids_dict, idx, pages_status, response>>
    /\ UNCHANGED <<pageVars, logVars>>

(***************************************************************************)
(* services/delete_files.py: every exception is caught inside the          *)
(* function and turned into a returned dict, which the handler drops.      *)
(***************************************************************************)
\* the listing of the bucket, in name order of the old objects
list_blobs == SelectSeq(OldBlobs, LAMBDA b : b \in bucket)

\* lines 6-9: client, bucket handle, listing
delete_files_in_bucket ==
    /\ pc = "clean_bucket"
    /\ clearCalls' = clearCalls + 1
    /\ \/ \* storage.Client() or the listing raises: caught at line 14
          /\ clearFailed' = TRUE
          /\ clearDone' = TRUE
          /\ pc' = "bucket_handle"
          /\ UNCHANGED blobs
       \/ \* the listing succeeds (there is a bucket to list)
          /\ env.GCS_BUCKET_NAME # None
          /\ blobs' = list_blobs
          /\ clearDone' = (list_blobs = <<>>)
          /\ pc' = IF list_blobs = <<>> THEN "bucket_handle" ELSE "deleting"
          /\ UNCHANGED clearFailed
    /\ UNCHANGED <<env, hier, bucket, fsFiles, remoteCalls, wait_cfg, space_id,
                   homepage_id, pages_ids_dict, idx, pages_status, response,
                   raisedBy>>
    /\ UNCHANGED <<pageVars, logVars>>

\* lines 11-13: one iteration of the deletion loop
blob_delete ==
    /\ pc = "deleting"
    /\ blobs # <<>>
    /\ \/ \* blob.delete() succeeds
          /\ bucket' = bucket \ {Head(blobs)}
          /\ blobs' = Tail(blobs)
          /\ clearDone' = (Tail(blobs) = <<>>)
          /\ pc' = IF Tail(blobs) = <<>> THEN "bucket_handle" ELSE "deleting"
          /\ UNCHANGED clearFailed
       \/ \* blob.delete() raises: caught at line 14, the loop is left
          /\ clearFailed' = TRUE
          /\ clearDone' = TRUE
          /\ pc' = "bucket_handle"
          /\ UNCHANGED <<bucket, blobs>>
    /\ UNCHANGED <<env, hier, fsFiles, clearCalls, remoteCalls, wait_cfg,
                   space_id, homepage_id, pages_ids_dict, idx, pages_status,
                   response, raisedBy>>
    /\ UNCHANGED <<pageVars, logVars>>

\* routes/export_space.py, lines 50-55: a client and a bucket handle are made
bucket_handle ==
    /\ pc = "bucket_handle"
    /\ \/ /\ pc' = "space_id"
          /\ UNCHANGED <<response, raisedBy>>
       \/ \* storage.Client() raises
          /\ pc' = "returned"
          /\ response' = [status |-> -1, msg |-> "Could not clean bucket"]
          /\ raisedBy' = "storage.Client"
    /\ UNCHANGED <<env, hier, bucket, fsFiles, blobs, clearCalls, clearDone,
                   clearFailed, remoteCalls, wait_cfg, space_id, homepage_id,
                   pages_ids_dict, idx, pages_status>>
    /\ UNCHANGED <<pageVars, logVars>>

(***************************************************************************)
(* An exception raised inside the third try block of the handler (lines    *)
(* 57-93) is caught at line 95 and ends the run with status -1.            *)
(***************************************************************************)
DownloadFailedResponse == [status |-> -1, msg |-> "Confluence space download failed"]

\* services/confluence_api.py, get_confluence_space_id_by_key, called at line 60
resolve_space_id ==
    /\ pc = "space_id"
    /\ remoteCalls' = remoteCalls + 1
    /\ \/ \* status 200 and a JSON body with an id
          /\ space_id' = <<"s">>
          /\ pc' = "homepage_id"
          /\ UNCHANGED <<response, raisedBy>>
       \/ \* handle_json_errors returns an error dict: key_json['id'] raises
          /\ pc' = "returned"
          /\ response' = DownloadFailedResponse
          /\ raisedBy' = "space_id"
          /\ UNCHANGED space_id
    /\ UNCHANGED <<env, hier, bucket, fsFiles, blobs, clearCalls, clearDone,
                   clearFailed, wait_cfg, homepage_id, pages_ids_dict, idx,
                   pages_status>>
    /\ UNCHANGED <<pageVars, logVars>>

\* get_confluence_homepage_id_by_space_id, called at line 64: the first page
\* of the listing whose parentType is None, or None when there is none
resolve_homepage_id ==
    /\ pc = "homepage_id"
    /\ remoteCalls' = remoteCalls + 1
    /\ \/ \E found \in {HomeId, None} :
             /\ homepage_id' = found
             /\ pc' = "discover"
             /\ UNCHANGED <<response, raisedBy>>
       \/ \* no 'results' in the body of a failed request: KeyError
          /\ pc' = "returned"
          /\ response' = DownloadFailedResponse
          /\ raisedBy' = "homepage_id"
          /\ UNCHANGED homepage_id
    /\ UNCHANGED <<env, hier, bucket, fsFiles, blobs, clearCalls, clearDone,
                   clearFailed, wait_cfg, space_id, pages_ids_dict, idx,
                   pages_status>>
    /\ UNCHANGED <<pageVars, logVars>>

(***************************************************************************)
(* get_confluence_children_by_parent_page_id_recursive.  A Python dict is  *)
(* a sequence of [id, title] with unique ids: assigning to a key that is   *)
(* present replaces its value in place, a new key is appended.             *)
(***************************************************************************)
DictKeys(d) == {d[k].id : k \in 1..Len(d)}
\* DictSet of a list of pairs: a key that is present is appended again
DictSetAppending(d, id, title) == Append(d, [id |-> id, title |-> title])
DictSet(d, id, title) ==
    IF id \in DictKeys(d)
    THEN [k \in 1..Len(d) |-> IF d[k].id = id THEN [id |-> id, title |-> title]
                              ELSE d[k]]
    ELSE Append(d, [id |-> id, title |-> title])
RECURSIVE DictUpdate(_, _)
DictUpdate(d, other) ==
    IF other = <<>> THEN d
    ELSE DictUpdate(DictSet(d, Head(other).id, Head(other).title), Tail(other))

\* children['results'] of GET /pages/{id}/children, as page indices
RECURSIVE ChildrenFrom(_, _)
ChildrenFrom(p, i) ==
    IF i > NumPages
    THEN IF p = 0 /\ hier.extra THEN <<NumPages>> ELSE <<>>
    ELSE (IF hier.parent[i] = p THEN <<i>> ELSE <<>>) \o ChildrenFrom(p, i + 1)
Children(p) == ChildrenFrom(p, 1)

\* discover_children that records the children and does not recurse
RECURSIVE discover_children_flat(_, _)
discover_children_flat(cs, d) ==
    IF cs = <<>> THEN d
    ELSE discover_children_flat(Tail(cs),
             DictSet(d, PageIdOf(Head(cs)), ListedTitle(Head(cs))))

RECURSIVE discover(_), discover_children(_, _)
\* lines 86-91: the loop over children['results']
discover_children(cs, d) ==
    IF cs = <<>> THEN d
    ELSE LET c == Head(cs)
             d1 == DictSet(d, PageIdOf(c), ListedTitle(c))
             d2 == DictUpdate(d1, discover(c))
         IN  discover_children(Tail(cs), d2)
\* lines 74-91
discover(p) ==
    IF Children(p) = <<>> THEN <<>> ELSE discover_children(Children(p), <<>>)

\* the pages whose children listing discover(p) requests, in request order
RECURSIVE Listings(_), ListingsOf(_)
ListingsOf(cs) == IF cs = <<>> THEN <<>>
                  ELSE Listings(Head(cs)) \o ListingsOf(Tail(cs))
\* Listings of a walk that requests the listing of a parent once more
\* after its children
ListingsRepeated(p) ==
    <<p>> \o ListingsOf(Children(p))
          \o (IF Children(p) = <<>> THEN <<>> ELSE <<p>>)
Listings(p) == <<p>> \o ListingsOf(Children(p))
ListedIds(p) == [k \in 1..Len(Listings(p)) |-> PageIdOf(Listings(p)[k])]

\* the number of children listings discover(p) requests
RECURSIVE ListCalls(_), ListCallsOf(_)
ListCallsOf(cs) == IF cs = <<>> THEN 0
                   ELSE ListCalls(Head(cs)) + ListCallsOf(Tail(cs))
ListCalls(p) == 1 + ListCallsOf(Children(p))

\* line 68.  The listing of a None homepage asks for /pages/None/children:
\* the remote answers with an error, or with no results.
discover_tree ==
    /\ pc = "discover"
    /\ \/ /\ homepage_id # None
          /\ remoteCalls' = remoteCalls + ListCalls(0)
          /\ listLog' = ListedIds(0)
          /\ pages_ids_dict' = discover(0)
          /\ pc' = "loop"
          /\ UNCHANGED <<response, raisedBy>>
       \/ /\ homepage_id = None
          /\ remoteCalls' = remoteCalls + 1
          /\ listLog' = <<None>>
          /\ pages_ids_dict' = <<>>
          /\ pc' = "loop"
          /\ UNCHANGED <<response, raisedBy>>
       \/ \* raise_for_status() raises on the k-th listing
          /\ \E k \in 1..(IF homepage_id = None THEN 1 ELSE ListCalls(0)) :
                /\ remoteCalls' = remoteCalls + k
                /\ listLog' = IF homepage_id = None THEN <<None>>
                              ELSE SubSeq(ListedIds(0), 1, k)
          /\ pc' = "returned"
          /\ response' = DownloadFailedResponse
          /\ raisedBy' = "children"
          /\ UNCHANGED pages_ids_dict
    /\ UNCHANGED <<env, hier, bucket, fsFiles, blobs, clearCalls, clearDone,
                   clearFailed, wait_cfg, space_id, homepage_id, idx,
                   pages_status>>
    /\ UNCHANGED <<pageVars, uploadLog, writeLog, downloadCalls>>

(***************************************************************************)
(* services/download_file.py, export_pdf_confluence_page_by_id, called     *)
(* for each item of pages_ids_dict (routes/export_space.py, lines 75-85).  *)
(***************************************************************************)
\* the frame of an action of the page export
PipelineFrame ==
    UNCHANGED <<env, hier, blobs, clearCalls, clearDone, clearFailed, wait_cfg,
                space_id, homepage_id, pages_ids_dict, pages_status>>

\* an exception leaves export_pdf_confluence_page_by_id: caught at line 95
Raise(what) ==
    /\ pc' = "returned"
    /\ response' = DownloadFailedResponse
    /\ raisedBy' = what

\* the wait of a handler that keeps one counter for all pages
wait_time_carried == IF idx = 0 THEN wait_cfg ELSE wait_time
\* routes/export_space.py, line 85: wait_time=wait_time, the handler's own
\* variable, which export_pdf_confluence_page_by_id cannot change
wait_time_argument == wait_cfg

\* lines 75-85 and 128-133: the next item; a falsy title is fetched
next_page ==
    /\ pc = "loop"
    /\ idx < Len(pages_ids_dict)
    /\ LET item == pages_ids_dict[idx + 1]
       IN  /\ page_id' = item.id
           /\ \/ /\ item.title # <<>>
                 /\ page_title' = item.title
                 /\ file_page_title' = FilePageTitle(item.title, item.id)
                 /\ pc' = "check_empty"
                 /\ UNCHANGED <<remoteCalls, response, raisedBy>>
              \/ \* get_confluence_page_title_by_id answers
                 /\ item.title = <<>>
                 /\ remoteCalls' = remoteCalls + 1
                 /\ page_title' = RealTitle(IndexOfId(item.id))
                 /\ file_page_title' =
                        FilePageTitle(RealTitle(IndexOfId(item.id)), item.id)
                 /\ pc' = "check_empty"
                 /\ UNCHANGED <<response, raisedBy>>
              \/ \* handle_json_errors returns an error dict: ['title'] raises
                 /\ item.title = <<>>
                 /\ remoteCalls' = remoteCalls + 1
                 /\ Raise("title")
                 /\ UNCHANGED <<page_title, file_page_title>>
    /\ page_content' = "unread"
    /\ url' = None
    /\ attempt' = 0
    /\ wait_time' = wait_time_argument
    /\ status_code' = PyNone
    /\ page_status' = "none"
    /\ initCount' = 0
    /\ waitLog' = <<>>
    /\ httpLog' = <<>>
    /\ stepLog' = <<>>
    /\ retrySleeps' = 0
    /\ PipelineFrame
    /\ UNCHANGED <<bucket, fsFiles, idx, logVars>>

\* is_empty_confluence_page that misses the empty-paragraph marker
is_empty_only_blank(content) == content = ""

\* services/confluence_api.py, is_empty_confluence_page, line 169
is_empty_confluence_page(content) == content = "<p />" \/ content = ""

\* lines 135-138
check_empty ==
    /\ pc = "check_empty"
    /\ remoteCalls' = remoteCalls + 1
    /\ \/ \E content \in Contents :
             /\ page_content' = content
             /\ IF is_empty_confluence_page(content)
                THEN /\ page_status' = EMPTY_PAGE
                     /\ pc' = "aggregate"
                ELSE /\ pc' = "request_url"
                     /\ UNCHANGED page_status
             /\ UNCHANGED <<response, raisedBy>>
       \/ \* a non-200 answer has no ['body']: get_confluence_page_content_by_id raises
          /\ Raise("is_empty")
          /\ UNCHANGED <<page_content, page_status>>
    /\ PipelineFrame
    /\ UNCHANGED <<bucket, fsFiles, idx, logVars>>
    /\ UNCHANGED <<page_id, page_title, file_page_title, url, attempt, wait_time,
                   status_code, initCount, waitLog, httpLog, stepLog, retrySleeps>>

\* services/confluence_api.py, extract_task_and_cloud_id_from_html
\* (found: the result is a dict, not None)
extract_task_and_cloud_id_from_html(html) ==
    [found |-> html.taskId # None /\ html.cloudId # None,
     taskId |-> html.taskId, cloudId |-> html.cloudId]
ExportMarkups == [taskId : {None, <<"t">>}, cloudId : {None, <<"c">>}]

\* line 143: get_pdf_export_confluence_url returns the body of the download
\* resolution, or None when the markup lacks an id
request_url ==
    /\ pc = "request_url"
    /\ initCount' = initCount + 1
    /\ \E html \in ExportMarkups :
          IF extract_task_and_cloud_id_from_html(html).found
          THEN /\ remoteCalls' = remoteCalls + 2
               /\ url' \in {PRESIGNED, NOT_A_URL}
          ELSE /\ remoteCalls' = remoteCalls + 1
               /\ url' = None
    /\ pc' = "settle"
    /\ PipelineFrame
    /\ UNCHANGED <<bucket, fsFiles, idx, response, raisedBy, logVars>>
    /\ UNCHANGED <<page_id, page_title, file_page_title, page_content, attempt,
                   wait_time, status_code, page_status, waitLog, httpLog,
                   stepLog, retrySleeps>>

\* line 146: time.sleep raises ValueError for a negative length
settle ==
    /\ pc = "settle"
    /\ IF wait_time < 0
       THEN /\ Raise("sleep")
            /\ UNCHANGED waitLog
       ELSE /\ waitLog' = Append(waitLog, wait_time)
            /\ pc' = "download"
            /\ UNCHANGED <<response, raisedBy>>
    /\ PipelineFrame
    /\ UNCHANGED <<bucket, fsFiles, idx, remoteCalls, logVars>>
    /\ UNCHANGED <<page_id, page_title, file_page_title, page_content, url,
                   attempt, wait_time, status_code, page_status, initCount,
                   httpLog, stepLog, retrySleeps>>

\* status_code_gcs that keeps the returned dict
status_code_gcs_dict(http) == [type |-> "dict", val |-> http]
(***************************************************************************)
(* download_pdf_from_presigned_url_to_gcs_bucket, lines 72-80: the chunks  *)
(* of the response body are written to a BytesIO, the position is reset    *)
(* and the blob is uploaded from the position to the end of the buffer.    *)
(***************************************************************************)
\* the chunks response.iter_content yields for the PDF of a page
PdfBody(id) == <<"%PDF">> \o id \o <<"%%EOF">>
\* io.BytesIO()
EmptyBuffer == [data |-> <<>>, pos |-> 0]
\* file_buffer.write(chunk): at the position, which moves behind the chunk
BufferWrite(buf, chunk) ==
    [data |-> SubSeq(buf.data, 1, buf.pos) \o <<chunk>>
              \o SubSeq(buf.data, buf.pos + 2, Len(buf.data)),
     pos |-> buf.pos + 1]
\* for chunk in response.iter_content(...): file_buffer.write(chunk)
RECURSIVE BufferWriteAll(_, _)
BufferWriteAll(buf, chunks) ==
    IF chunks = <<>> THEN buf
    ELSE BufferWriteAll(BufferWrite(buf, Head(chunks)), Tail(chunks))
\* BufferSeek of a function that forgets file_buffer.seek(0)
BufferSeekMissing(buf, n) == buf
\* file_buffer.seek(n)
BufferSeek(buf, n) == [buf EXCEPT !.pos = n]
\* blob.upload_from_file(file_buffer): the content the blob gets
upload_from_file(buf) == SubSeq(buf.data, buf.pos + 1, Len(buf.data))
\* lines 72-80
BufferedUpload(body) ==
    upload_from_file(BufferSeek(BufferWriteAll(EmptyBuffer, body), 0))

\* lines 152-153: status_code = download_url['statusCode']
status_code_gcs(http) == PyInt(http)
\* line 163: status_code = download_pdf_from_presigned_url(...), a dict
status_code_local(http) == PyDict(http)
\* line 163: the output_path argument
output_path_of(title) == DefaultOutputPath \o title

\* finish_attempt that leaves wait_time as it is
finish_attempt_no_backoff(code) ==
    /\ status_code' = code
    /\ stepLog' = Append(stepLog, code)
    /\ IF code = [type |-> "int", val |-> HTTP_OK]
       THEN /\ page_status' = DOWNLOAD_SUCCESFUL
            /\ pc' = "aggregate"
            /\ UNCHANGED <<wait_time, retrySleeps, attempt>>
       ELSE /\ UNCHANGED wait_time
            /\ retrySleeps' = retrySleeps + 1
            /\ attempt' = attempt + 1
            /\ IF attempt + 1 < Attempts
               THEN /\ pc' = "request_url"
                    /\ UNCHANGED page_status
               ELSE /\ page_status' = DOWNLOAD_FAILED
                    /\ pc' = "aggregate"
    /\ UNCHANGED <<response, raisedBy>>

\* finish_attempt that gives up after the first failed attempt
finish_attempt_single_try(code) ==
    /\ status_code' = code
    /\ stepLog' = Append(stepLog, code)
    /\ IF code = [type |-> "int", val |-> HTTP_OK]
       THEN /\ page_status' = DOWNLOAD_SUCCESFUL
            /\ UNCHANGED <<wait_time, retrySleeps, attempt>>
       ELSE /\ wait_time' = wait_time + WaitIncrement
            /\ retrySleeps' = retrySleeps + 1
            /\ attempt' = attempt + 1
            /\ page_status' = DOWNLOAD_FAILED
    /\ pc' = "aggregate"
    /\ UNCHANGED <<response, raisedBy>>

\* finish_attempt that tests the loop condition before the retry sleep and the
\* wait increase, and so skips both after the last attempt
finish_attempt_break_early(code) ==
    /\ status_code' = code
    /\ stepLog' = Append(stepLog, code)
    /\ IF PyEq(code, PyInt(HTTP_OK))
       THEN /\ page_status' = DOWNLOAD_SUCCESFUL
            /\ pc' = "aggregate"
            /\ UNCHANGED <<wait_time, retrySleeps, attempt>>
       ELSE /\ attempt' = attempt + 1
            /\ IF attempt + 1 < Attempts
               THEN /\ wait_time' = wait_time + WaitIncrement
                    /\ retrySleeps' = retrySleeps + 1
                    /\ pc' = "request_url"
                    /\ UNCHANGED page_status
               ELSE /\ page_status' = DOWNLOAD_FAILED
                    /\ pc' = "aggregate"
                    /\ UNCHANGED <<wait_time, retrySleeps>>
    /\ UNCHANGED <<response, raisedBy>>

\* lines 165-172: the end of an attempt whose download step returned code
finish_attempt(code) ==
    /\ status_code' = code
    /\ stepLog' = Append(stepLog, code)
    /\ IF PyEq(code, PyInt(HTTP_OK))
       THEN /\ page_status' = DOWNLOAD_SUCCESFUL
            /\ pc' = "aggregate"
            /\ UNCHANGED <<wait_time, retrySleeps, attempt>>
       ELSE /\ wait_time' = wait_time + WaitIncrement
            /\ retrySleeps' = retrySleeps + 1
            /\ attempt' = attempt + 1
            /\ IF attempt + 1 < Attempts
               THEN /\ pc' = "request_url"
                    /\ UNCHANGED page_status
               ELSE /\ page_status' = DOWNLOAD_FAILED
                    /\ pc' = "aggregate"
    /\ UNCHANGED <<response, raisedBy>>

\* lines 151-170 with download_pdf_from_presigned_url_to_gcs_bucket (44-87)
\* and download_pdf_from_presigned_url (10-42)
download ==
    /\ pc = "download"
    /\ remoteCalls' = remoteCalls + 1
    /\ \/ \* requests.get(None) and requests.get of a text that is no URL raise
          /\ url # PRESIGNED
          /\ Raise(IF url = None THEN "no_url" ELSE "not_a_url")
          /\ UNCHANGED downloadCalls
          /\ UNCHANGED <<bucket, fsFiles, uploadLog, writeLog, httpLog, stepLog, status_code,
                         page_status, wait_time, retrySleeps, attempt>>
       \/ \* the connection fails, or os.makedirs fails
          /\ url = PRESIGNED
          /\ Raise("transport")
          /\ downloadCalls' = downloadCalls + 1
          /\ UNCHANGED <<bucket, fsFiles, uploadLog, writeLog, httpLog, stepLog, status_code,
                         page_status, wait_time, retrySleeps, attempt>>
       \/ \* to the bucket: the body is buffered, then uploaded (lines 65-80)
          /\ url = PRESIGNED
          /\ env.GCS_BUCKET_NAME # None
          /\ downloadCalls' = downloadCalls + 1
          /\ \E http \in DownloadStatuses :
                /\ httpLog' = Append(httpLog, http)
                /\ \/ /\ http = HTTP_OK
                      /\ bucket' = bucket \cup {GcsBlobName(file_page_title)}
                      /\ uploadLog' = Append(uploadLog,
                            [page |-> page_id,
                             name |-> GcsBlobName(file_page_title),
                             before |-> bucket,
                             content |-> BufferedUpload(PdfBody(page_id))])
                      /\ finish_attempt(status_code_gcs(http))
                   \/ \* storage.Client() or upload_from_file raises
                      /\ http = HTTP_OK
                      /\ Raise("store")
                      /\ UNCHANGED <<bucket, uploadLog, stepLog, status_code,
                                     page_status, wait_time, retrySleeps, attempt>>
                   \/ /\ http # HTTP_OK
                      /\ finish_attempt(status_code_gcs(http))
                      /\ UNCHANGED <<bucket, uploadLog>>
          /\ UNCHANGED <<fsFiles, writeLog>>
       \/ \* to a local file (lines 34-37)
          /\ url = PRESIGNED
          /\ env.GCS_BUCKET_NAME = None
          /\ downloadCalls' = downloadCalls + 1
          /\ \E http \in DownloadStatuses :
                /\ httpLog' = Append(httpLog, http)
                /\ \/ /\ http = HTTP_OK
                      /\ fsFiles' = fsFiles \cup
                            {LocalPath(output_path_of(file_page_title))}
                      /\ writeLog' = Append(writeLog,
                            [page |-> page_id,
                             path |-> LocalPath(output_path_of(file_page_title))])
                      /\ finish_attempt(status_code_local(http))
                   \/ \* open() or write() raises
                      /\ http = HTTP_OK
                      /\ Raise("write")
                      /\ UNCHANGED <<fsFiles, writeLog, stepLog, status_code,
                                     page_status, wait_time, retrySleeps, attempt>>
                   \/ /\ http # HTTP_OK
                      /\ finish_attempt(status_code_local(http))
                      /\ UNCHANGED <<fsFiles, writeLog>>
          /\ UNCHANGED <<bucket, uploadLog>>
    /\ PipelineFrame
    /\ UNCHANGED <<idx, page_id, page_title, file_page_title, page_content, url,
                   initCount, waitLog, listLog>>

\* routes/export_space.py, lines 87-90
aggregate ==
    /\ pc = "aggregate"
    /\ pages_status' = [pages_status EXCEPT
                           ![page_status] = Append(@, page_id)]
    /\ idx' = idx + 1
    /\ pc' = "loop"
    /\ UNCHANGED <<env, hier, bucket, fsFiles, blobs, clearCalls, clearDone,
                   clearFailed, remoteCalls, wait_cfg, space_id, homepage_id,
                   pages_ids_dict, response, raisedBy>>
    /\ UNCHANGED <<pageVars, logVars>>

\* lines 92-93
return_report ==
    /\ pc = "loop"
    /\ idx = Len(pages_ids_dict)
    /\ pc' = "returned"
    /\ response' = [status |-> 1, msg |-> "Confluence space download succesful"]
    /\ UNCHANGED <<env, hier, bucket, fsFiles, blobs, clearCalls, clearDone,
                   clearFailed, remoteCalls, wait_cfg, space_id, homepage_id,
                   pages_ids_dict, idx, pages_status, raisedBy>>
    /\ UNCHANGED <<pageVars, logVars>>

Next ==
    \/ LoadEnv
    \/ delete_files_in_bucket
    \/ blob_delete
    \/ bucket_handle
    \/ resolve_space_id
    \/ resolve_homepage_id
    \/ discover_tree
    \/ next_page
    \/ check_empty
    \/ request_url
    \/ settle
    \/ download
    \/ aggregate
    \/ return_report

Spec == Init /\ [][Next]_vars

TypeOK ==
    /\ response.status \in {0, 1, -1}
    /\ attempt \in 0..Attempts
    /\ clearCalls \in 0..1
    /\ page_status \in Outcomes \cup {"none"}

(***************************************************************************)
(* Properties.                                                             *)
(***************************************************************************)
BucketConfigured == env.GCS_BUCKET_NAME # None
\* export_pdf_confluence_page_by_id has returned for the current page
PageReturned == pc = "aggregate"
\* the number of times x occurs in the sequence q
Count(q, x) == Cardinality({k \in 1..Len(q) : q[k] = x})
ReportCount(id) ==
    Count(pages_status[EMPTY_PAGE], id) + Count(pages_status[DOWNLOAD_SUCCESFUL], id)
    + Count(pages_status[DOWNLOAD_FAILED], id)
ReportIds == UNION {{pages_status[o][k] : k \in 1..Len(pages_status[o])} : o \in Outcomes}
\* the failures of one page that C1 lists
PerPageFailures == {"is_empty", "no_url", "transport", "store"}

\* C1: a run whose bucket clear, space id, homepage and tree discovery all
\* succeeded returns status 1 with a report of every discovered page,
\* whatever failed for a single page (emptiness check, no export URL,
\* transport, store): such a failure never makes the response status -1.
C1_PerPageFailureNeverAborts ==
    (/\ pc = "returned"
     /\ ~clearFailed
     /\ homepage_id # None
     /\ raisedBy \in PerPageFailures \cup {"nothing"})
    => /\ response.status = 1
       /\ ReportIds = DictKeys(pages_ids_dict)

\* C2: an export initiation that produced no URL is one failed attempt: no
\* exception leaves export_pdf_confluence_page_by_id because of it, and three
\* of them make the page DOWNLOAD_FAILED.
C2_NoUrlIsAFailedAttempt ==
    /\ raisedBy # "no_url"
    /\ (PageReturned /\ initCount = Attempts /\ url = None)
          => page_status = DOWNLOAD_FAILED

\* C3: a failure while clearing the bucket (client, listing, one deletion) is
\* fatal: the run returns status -1 and resolves, discovers, exports and
\* uploads nothing.
C3_ClearFailureIsFatal ==
    clearFailed =>
        /\ pc \in {"bucket_handle", "returned"}
        /\ pc = "returned" => response.status = -1
        /\ remoteCalls = 0
        /\ uploadLog = <<>>

\* C4: when the first upload of a run begins, the bucket holds no object.
C4_BucketEmptyAtFirstUpload ==
    uploadLog # <<>> => uploadLog[1].before = {}

\* C5: the bucket clear is invoked exactly once in a run (the run of the
\* pipeline, which starts once the configuration is read) and has returned
\* before the first remote call and before any upload or file write; no step
\* of the clear comes after an upload.
C5_ClearOnceBeforeAnyUpload ==
    /\ clearCalls <= 1
    /\ pc \notin {"load_env", "raised", "clean_bucket"} => clearCalls = 1
    /\ (remoteCalls > 0 \/ uploadLog # <<>> \/ writeLog # <<>>)
          => clearCalls = 1 /\ clearDone /\ pc \notin {"clean_bucket", "deleting"}
    /\ pc \in {"clean_bucket", "deleting"}
          => remoteCalls = 0 /\ uploadLog = <<>> /\ writeLog = <<>>
C5_Witness ==
    /\ pc = "returned"
    /\ response.status = 1
    /\ Len(uploadLog) >= 2
    /\ clearCalls = 1

\* C6: a non-empty page whose download answers non-200 on every attempt gets
\* exactly 3 export initiations and 3 downloads and is DOWNLOAD_FAILED; the
\* settling wait is wait_time on attempt 1 and 10 more on each next attempt.
C6_ThreeAttemptsGrowingWait ==
    /\ \A k \in 1..Len(waitLog) : waitLog[k] = wait_cfg + WaitIncrement * (k - 1)
    /\ \A k \in 2..Len(waitLog) : waitLog[k] > waitLog[k - 1]
    /\ (/\ PageReturned
        /\ page_status # EMPTY_PAGE
        /\ \A k \in 1..Len(httpLog) : httpLog[k] # HTTP_OK)
       => /\ page_status = DOWNLOAD_FAILED
          /\ initCount = 3
          /\ Len(httpLog) = 3
          /\ Len(waitLog) = 3
C6_Witness ==
    /\ PageReturned
    /\ page_status = DOWNLOAD_FAILED
    /\ Len(httpLog) = 3
    /\ \A k \in 1..3 : httpLog[k] # HTTP_OK
    /\ waitLog = <<wait_cfg, wait_cfg + 10, wait_cfg + 20>>

\* C7: with a bucket, once the first attempt of a page got a URL and its
\* download step returned with HTTP 200, the page is DOWNLOAD_SUCCESFUL after
\* that one attempt: one initiation, one settling sleep of wait_time, one
\* download, no retry sleep, no second attempt.
C7_SuccessOnFirstAttempt ==
    (/\ BucketConfigured
     /\ Len(stepLog) >= 1
     /\ httpLog[1] = HTTP_OK)
    => /\ page_status = DOWNLOAD_SUCCESFUL
       /\ initCount = 1
       /\ waitLog = <<wait_cfg>>
       /\ Len(httpLog) = 1
       /\ Len(stepLog) = 1
       /\ retrySleeps = 0
       /\ attempt = 0
C7_Witness ==
    /\ PageReturned
    /\ BucketConfigured
    /\ url = PRESIGNED
    /\ httpLog = <<HTTP_OK>>
    /\ page_status = DOWNLOAD_SUCCESFUL

\* C8: without a bucket, once a download answered HTTP 200 and the file was
\* written, the page is DOWNLOAD_SUCCESFUL on that attempt and no further
\* attempt is made.
C8_LocalSuccessOnHttpOk ==
    (/\ ~BucketConfigured
     /\ Len(stepLog) >= 1
     /\ httpLog[Len(stepLog)] = HTTP_OK)
    => /\ page_status = DOWNLOAD_SUCCESFUL
       /\ initCount = Len(stepLog)
       /\ Len(httpLog) = Len(stepLog)

\* C9: a page whose content is the empty-paragraph marker or the empty
\* string is EMPTY_PAGE, with no export initiation, no sleep, no download
\* and no upload or file write for it.
C9_EmptyPageDoesNothing ==
    page_content \in {"<p />", ""} =>
        /\ page_status = EMPTY_PAGE
        /\ initCount = 0
        /\ waitLog = <<>>
        /\ retrySleeps = 0
        /\ httpLog = <<>>
        /\ stepLog = <<>>
        /\ \A k \in 1..Len(uploadLog) : uploadLog[k].page # page_id
        /\ \A k \in 1..Len(writeLog) : writeLog[k].page # page_id
C9_Witness ==
    /\ PageReturned
    /\ page_content = "<p />"
    /\ page_status = EMPTY_PAGE
    /\ uploadLog # <<>>

\* C10: in the report of a run that returns status 1, every page id of the
\* discovered tree is in exactly one outcome list, once, and no other id is
\* in the report, also when discovery reached an id more than once.
C10_OneOutcomePerPage ==
    (pc = "returned" /\ response.status = 1) =>
        /\ \A id \in DictKeys(pages_ids_dict) : ReportCount(id) = 1
        /\ ReportIds \subseteq DictKeys(pages_ids_dict)
C10_Witness ==
    /\ pc = "returned"
    /\ response.status = 1
    /\ hier.extra
    /\ hier.parent[NumPages] > 0
    /\ Len(pages_ids_dict) = NumPages
    /\ \A o \in Outcomes : pages_status[o] # <<>>


\* the pages under the homepage: reported by the homepage's listing or by
\* the listing of a page under the homepage
RECURSIVE UnderHome(_)
UnderHome(i) ==
    \/ hier.parent[i] = 0
    \/ hier.extra /\ i = NumPages
    \/ hier.parent[i] > 0 /\ UnderHome(hier.parent[i])
\* the tree discovery of the run has just returned, for a homepage that
\* exists (pages_ids_dict and listLog do not change afterwards)
Discovered ==
    /\ pc = "loop"
    /\ idx = 0
    /\ homepage_id = HomeId

\* C11: the keys of the discovered mapping are exactly the ids of the pages
\* reachable from the homepage through the children listings, without the
\* homepage, and each key maps to the title its listing reported.
C11_TreeIsReachableSet ==
    Discovered =>
        /\ DictKeys(pages_ids_dict) = {PageIdOf(i) : i \in {j \in Pages : UnderHome(j)}}
        /\ HomeId \notin DictKeys(pages_ids_dict)
        /\ \A k \in 1..Len(pages_ids_dict) :
              pages_ids_dict[k].title = ListedTitle(IndexOfId(pages_ids_dict[k].id))
C11_Witness ==
    /\ Discovered
    /\ hier.parent[2] = 1
    /\ hier.parent[3] = 2
    /\ Len(pages_ids_dict) = NumPages


\* the homepage lookup answered and found no page without a parent
NoRootFound ==
    /\ space_id # None
    /\ homepage_id = None
    /\ pc # "homepage_id"
    /\ raisedBy # "homepage_id"

\* C12: when no page of the space lacks a parent, the homepage resolution
\* fails and the run ends with status -1: no children listing, no page
\* export and no upload follows the homepage lookup.
C12_NoRootIsFatal ==
    NoRootFound =>
        /\ listLog = <<>>
        /\ page_id = None
        /\ uploadLog = <<>>
        /\ pc = "returned" => response.status = -1


\* WAIT_TIME_BEFORE_DOWNLOAD is absent, is no integer or is negative
ConfigMalformed ==
    LET r == int(env.WAIT_TIME_BEFORE_DOWNLOAD) IN ~r.ok \/ r.val < 0

\* C13: with a required configuration value absent or malformed the trigger
\* fails fast: it returns the response with status -1 (it does not raise)
\* and has done no bucket clear and no remote call.
C13_ConfigErrorFailsFast ==
    (ConfigMalformed /\ pc # "load_env") =>
        /\ pc = "returned"
        /\ response.status = -1
        /\ clearCalls = 0
        /\ remoteCalls = 0


\* C14: the backoff is local to a page: the first settling wait of every
\* page is the configured wait, however much the wait of earlier pages grew.
C14_BackoffLocalToPage ==
    /\ (pc \in {"check_empty", "request_url", "settle"} /\ attempt = 0)
          => wait_time = wait_cfg
    /\ waitLog # <<>> => waitLog[1] = wait_cfg
C14_Witness ==
    /\ pc = "download"
    /\ waitLog = <<wait_cfg>>
    /\ pages_status[DOWNLOAD_FAILED] # <<>>


(***************************************************************************)
(* The end-to-end scenario of the specification: homepage H with children  *)
(* A and B, B with child C; A is empty, the download of B answers non-200  *)
(* and then 200, the download of C answers non-200 three times; nothing    *)
(* raises.  The remote is restricted to that scenario, the handler is not. *)
(***************************************************************************)
PageA == PageIdOf(1)
PageB == PageIdOf(2)
PageC == PageIdOf(3)
E2EHierarchy == [parent |-> [i \in Pages |-> IF i = 3 THEN 2 ELSE IF i <= 2 THEN 0 ELSE -1],
                 extra |-> FALSE]
\* the HTTP statuses the downloads of a page answer with, in order
E2EDownloads(id) == IF id = PageB THEN <<404, HTTP_OK>>
                    ELSE IF id = PageC THEN <<404, 404, 404>>
                    ELSE <<>>
IsPrefix(q, r) == Len(q) <= Len(r) /\ SubSeq(r, 1, Len(q)) = q
InitE2E ==
    /\ Init
    /\ hier = E2EHierarchy
    /\ env.GCS_BUCKET_NAME # None
    /\ ~ConfigMalformed
\* what the remote does in the scenario
E2ERemote ==
    /\ raisedBy' = "nothing"
    /\ pc' = "discover" => homepage_id' = HomeId
    /\ pc = "check_empty" =>
          (is_empty_confluence_page(page_content') <=> page_id = PageA)
    /\ pc' = "settle" => url' = PRESIGNED
    /\ IsPrefix(httpLog', E2EDownloads(page_id'))
NextE2E ==
    \/ LoadEnv /\ E2ERemote
    \/ delete_files_in_bucket /\ E2ERemote
    \/ blob_delete /\ E2ERemote
    \/ bucket_handle /\ E2ERemote
    \/ resolve_space_id /\ E2ERemote
    \/ resolve_homepage_id /\ E2ERemote
    \/ discover_tree /\ E2ERemote
    \/ next_page /\ E2ERemote
    \/ check_empty /\ E2ERemote
    \/ request_url /\ E2ERemote
    \/ settle /\ E2ERemote
    \/ download /\ E2ERemote
    \/ aggregate /\ E2ERemote
    \/ return_report /\ E2ERemote
SpecE2E == InitE2E /\ [][NextE2E]_vars

\* C15: the scenario run returns status 1 with the report EMPTY_PAGE [A],
\* DOWNLOAD_SUCCESFUL [B], DOWNLOAD_FAILED [C], H in no list, after 5
\* downloads in all: none for A, 2 for B, 3 for C.
C15_EndToEndScenario ==
    /\ PageReturned => Len(httpLog) = Len(E2EDownloads(page_id))
    /\ pc = "returned" =>
          /\ response.status = 1
          /\ pages_status = [o \in Outcomes |->
                               CASE o = EMPTY_PAGE -> <<PageA>>
                                 [] o = DOWNLOAD_SUCCESFUL -> <<PageB>>
                                 [] o = DOWNLOAD_FAILED -> <<PageC>>]
          /\ HomeId \notin ReportIds
          /\ downloadCalls = 5
C15_Witness ==
    /\ pc = "returned"
    /\ response.status = 1
    /\ pages_status[DOWNLOAD_FAILED] = <<PageC>>
    /\ downloadCalls = 5


\* C16: two pages with distinct ids are uploaded under distinct object
\* names, also when their titles sanitize to the same text: no upload of a
\* run replaces the object of another page of the run.
C16_DistinctIdsDistinctNames ==
    \A i, j \in 1..Len(uploadLog) :
        uploadLog[i].page # uploadLog[j].page
            => uploadLog[i].name # uploadLog[j].name


\* C17: the sanitized filename of a non-empty title is non-empty, also for a
\* title of symbols or whitespace only, and holds no space and no character
\* outside the word-character class.
C17_SanitizedTitleNonEmpty ==
    (page_title # None /\ page_title # <<>>) =>
        LET safe == convert_title_to_filename(page_title)
        IN  /\ safe # <<>>
            /\ \A k \in 1..Len(safe) : safe[k] # " " /\ IsWordChar(safe[k])


\* C18: an upload whose byte source answers non-200 creates, replaces and
\* deletes no object and reports the failure as a returned status, not an
\* exception; on 200 the object is committed from the fully buffered body,
\* so every object a run uploads is complete.
C18_UploadAllOrNothing ==
    /\ \A k \in 1..Len(uploadLog) :
          uploadLog[k].content = PdfBody(uploadLog[k].page)
    /\ \A k \in 1..(Len(uploadLog) - 1) :
          uploadLog[k + 1].before = uploadLog[k].before \cup {uploadLog[k].name}
    /\ uploadLog # <<>> =>
          bucket = uploadLog[Len(uploadLog)].before
                       \cup {uploadLog[Len(uploadLog)].name}
    /\ BucketConfigured =>
          \A k \in 1..Len(httpLog) :
              httpLog[k] # HTTP_OK =>
                  /\ k <= Len(stepLog)
                  /\ stepLog[k] = PyInt(httpLog[k])
    /\ (/\ BucketConfigured
        /\ pc \in {"request_url", "settle", "download", "aggregate"}
        /\ \A k \in 1..Len(httpLog) : httpLog[k] # HTTP_OK)
       => \A k \in 1..Len(uploadLog) : uploadLog[k].page # page_id
C18_Witness ==
    /\ BucketConfigured
    /\ PageReturned
    /\ Len(httpLog) = 2
    /\ httpLog[1] # HTTP_OK
    /\ httpLog[2] = HTTP_OK
    /\ Len(uploadLog) >= 2
    /\ uploadLog[Len(uploadLog)].page = page_id


\* no page is reported by two listings (or twice by one)
IsTree == ~(hier.extra /\ hier.parent[NumPages] >= 0)

\* C19: for a finite acyclic hierarchy the discovery ends after finitely
\* many listings: a page without children returns the empty mapping and
\* lists nothing further, and in a tree the children of the homepage and of
\* every page under it are listed exactly once (of no other page at all).
C19_DiscoveryListsEachPageOnce ==
    Discovered =>
        /\ Len(listLog) = ListCalls(0)
        /\ \A i \in Pages \cup {0} :
              Children(i) = <<>> => discover(i) = <<>> /\ Listings(i) = <<i>>
        /\ IsTree =>
              \A i \in Pages \cup {0} :
                  Count(listLog, PageIdOf(i)) =
                      IF i = 0 \/ UnderHome(i) THEN 1 ELSE 0
C19_Witness ==
    /\ Discovered
    /\ IsTree
    /\ hier.parent[2] = 1
    /\ hier.parent[3] = 1
    /\ Len(listLog) = NumPages + 1


\* the number of uploads the run committed for a page
UploadCount(id) == Cardinality({k \in 1..Len(uploadLog) : uploadLog[k].page = id})

\* C20: at the end of a run that returns status 1, a page has an object
\* uploaded by the run if and only if it is reported DOWNLOAD_SUCCESFUL, and
\* then it was uploaded exactly once; EMPTY_PAGE and DOWNLOAD_FAILED pages
\* have no upload.
C20_UploadedIffSuccessful ==
    (pc = "returned" /\ response.status = 1) =>
        /\ \A id \in DictKeys(pages_ids_dict) :
              UploadCount(id) =
                  IF Count(pages_status[DOWNLOAD_SUCCESFUL], id) > 0 THEN 1 ELSE 0
        /\ \A k \in 1..Len(uploadLog) :
              /\ uploadLog[k].page \in DictKeys(pages_ids_dict)
              /\ uploadLog[k].name \in bucket
C20_Witness ==
    /\ pc = "returned"
    /\ response.status = 1
    /\ Len(uploadLog) = 1
    /\ pages_status[EMPTY_PAGE] # <<>>
    /\ pages_status[DOWNLOAD_FAILED] # <<>>
    /\ pages_status[DOWNLOAD_SUCCESFUL] # <<>>


\* the sum of the numbers of a sequence
RECURSIVE SumSeq(_)
SumSeq(q) == IF q = <<>> THEN 0 ELSE Head(q) + SumSeq(Tail(q))
\* the attempts of the current page whose download step did not return 200
FailedAttempts == Cardinality({k \in 1..Len(stepLog) : ~PyEq(stepLog[k], PyInt(HTTP_OK))})
\* the seconds the export of the current page has slept so far
SleptSeconds == SumSeq(waitLog) + RetrySleep * retrySleeps

\* C21: every failed download attempt of a page, the third and last one
\* included, is followed by the 10-second retry sleep and by an increase of
\* the wait by 10; a page that fails all 3 attempts with initial wait w has
\* slept w, w + 10 and w + 20 before its downloads and 3 retry sleeps of 10,
\* 3w + 60 seconds in total, when DOWNLOAD_FAILED is returned.
C21_SleepAfterEveryFailure ==
    pc \in {"request_url", "settle", "download", "aggregate"} =>
        /\ retrySleeps = FailedAttempts
        /\ wait_time = wait_cfg + WaitIncrement * FailedAttempts
        /\ (PageReturned /\ page_status = DOWNLOAD_FAILED) =>
              /\ FailedAttempts = 3
              /\ retrySleeps = 3
              /\ waitLog = <<wait_cfg, wait_cfg + 10, wait_cfg + 20>>
              /\ wait_time = wait_cfg + 30
              /\ SleptSeconds = 3 * wait_cfg + 60
C21_Witness ==
    /\ PageReturned
    /\ page_status = DOWNLOAD_FAILED
    /\ wait_cfg = 15
    /\ retrySleeps = 3
    /\ SleptSeconds = 105

====
